---- MODULE Spec2Model ----
(***************************************************************************)
(* State-machine model of the REST backend: registration and login with a *)
(* per-user bearer token, and two user-scoped collections (personal notes *)
(* and packing-list items).  The repository holds two builds of the       *)
(* server that differ in how the protected routes are wired:               *)
(*   "part_000"  src/unnamed/part_000                                      *)
(*   "server"    src/server.js                                             *)
(* The build is fixed in the initial state (variable variant) and every   *)
(* route handler is one atomic action.                                     *)
(***************************************************************************)
EXTENDS Integers, Sequences, FiniteSets, TLC

VARIABLES
    variant,      \* which build of the server is running
    readyState,   \* mongoose.connection.readyState: 0 disconnected, 1 connected, 2 connecting
    users,        \* the User collection
    notes,        \* the PersonalNotes collection
    items,        \* the PackingList collection
    noteSeq,      \* number of PersonalNotes documents created so far (the last _id)
    itemSeq,      \* number of PackingList documents created so far (the last _id)
    now,          \* the clock read by new Date(); it advances between two creations
    regToken,     \* history: user id -> accessToken returned by that user's registration
    creator,      \* history: collection -> (document id -> user whose token authenticated the create)
    inflight,     \* registrations that passed the lookup and await their save: slot -> request
    last          \* the last request with the response it received

vars == <<variant, readyState, users, notes, items, noteSeq, itemSeq, now,
          regToken, creator, inflight, last>>

----------------------------------------------------------------------------
(* Bounds of the model *)

MaxUsers == 2
\* documents created over a run, both collections together
MaxDocs  == 2
\* registrations that can be between their lookup and their save at once
MaxInflight == 2

(* Program constants *)

MinPasswordLength == 8
HeadingMaxLength  == 50
MessageMinLength  == 5
ItemHeadingMinLength000 == 2
ItemHeadingMinLengthServer == 5

Variants == {"part_000", "server"}

----------------------------------------------------------------------------
(* Strings are sequences of one-character strings. *)

Str(c, n) == [i \in 1..n |-> c]

\* An optional request field: <<>> when the JSON body (or header) lacks it.
Undefined == <<>>
Some(v)   == <<v>>
IsDefined(f) == f # Undefined
Val(f)    == f[1]

LowerChar(c) ==
    CASE c = "A" -> "a"
      [] c = "B" -> "b"
      [] OTHER  -> c

toLowerCaseIdentity(s) == s

\* String.prototype.toLowerCase
toLowerCase(s) == [i \in 1..Len(s) |-> LowerChar(s[i])]

RECURSIVE TrimStart(_)
TrimStart(s) == IF s # <<>> /\ Head(s) = " " THEN TrimStart(Tail(s)) ELSE s

RECURSIVE TrimEnd(_)
TrimEnd(s) == IF s # <<>> /\ s[Len(s)] = " " THEN TrimEnd(SubSeq(s, 1, Len(s) - 1)) ELSE s

\* the schema option trim: true
Trim(s) == TrimEnd(TrimStart(s))

----------------------------------------------------------------------------
(* Inputs *)

Usernames == {<<"a">>, <<"A">>, <<"b">>, <<>>}
\* two long passwords that agree on their first 72 characters
LongA == Str("z", 72) \o <<"a">>
LongB == Str("z", 72) \o <<"b">>
Passwords == {Str("x", 7), Str("x", 8), LongA, LongB}
\* Authorization header values: 0 models a request with no header.
NoHeader  == 0
Tokens    == 1..MaxUsers
NoUser    == 0
UserIds   == 1..MaxUsers
\* a route parameter that is no ObjectId
BadId     == -1

----------------------------------------------------------------------------
(* bcrypt: the hash keeps the salt it was made with and covers the first   *)
(* 72 bytes of the password; the comparison re-hashes the candidate with   *)
(* that salt.                                                              *)

hashSync(password, salt) ==
    [salt |-> salt,
     digest |-> IF Len(password) > 72 THEN SubSeq(password, 1, 72) ELSE password]

compareSyncAnyPassword(password, hash) == hash.salt = hash.salt

compareSync(password, hash) == hashSync(password, hash.salt) = hash

----------------------------------------------------------------------------
(* The User collection *)

\* User.findOne({ username })
FindUserByName(name) == {u \in users : u.username = name}

\* User.findOne({ accessToken }); an undefined value is sent as null and
\* matches only documents without a token, of which there are none.
FindUserByToken(token) ==
    IF token = NoHeader THEN {} ELSE {u \in users : u.accessToken = token}

\* default: () => crypto.randomBytes(128).toString("hex"): 1024 random bits.
\* Tokens are opaque and only compared for equality, so the model draws one
\* representative value that no stored user holds.
randomToken ==
    LET fresh == Tokens \ {u.accessToken : u \in users}
    IN CHOOSE t \in fresh : \A o \in fresh : o <= t

\* bcrypt.genSaltSync(): a random salt, likewise one representative value
\* that no stored hash uses.
genSaltSync == Cardinality(users) + 1

\* schema validation of a User document (required: true rejects "")
UserValid(name, hash) == name # <<>>

\* A JSON body of a notes or packing-list request
Body(heading, message, tags, isCompleted) ==
    [heading |-> heading, message |-> message, tags |-> tags, isCompleted |-> isCompleted]

NoBody == Body(Undefined, Undefined, Undefined, Undefined)

\* The last request and the response it received.  success is the flag of the
\* JSON body: "true", "false", or "absent" when the body carries none.  identity
\* is req.user as the handler behind authenticateUser found it.  Fields that a
\* request or response does not carry hold their neutral value.
Response(op, status, success, kind) ==
    [op |-> op, status |-> status, success |-> success, kind |-> kind,
     token |-> NoHeader, target |-> 0, username |-> Undefined, password |-> Undefined,
     body |-> NoBody, accessToken |-> NoHeader, userId |-> NoUser, doc |-> 0,
     result |-> <<>>, identity |-> NoUser, ran |-> {}]

Connected == readyState = 1

Init ==
    /\ variant \in Variants
    /\ readyState = 2
    /\ users = {}
    /\ notes = {}
    /\ items = {}
    /\ noteSeq = 0
    /\ itemSeq = 0
    /\ now = 0
    /\ regToken = [i \in {} |-> 0]
    /\ creator = [notes |-> [i \in {} |-> 0], items |-> [i \in {} |-> 0]]
    /\ inflight = [i \in {} |-> 0]
    /\ last = Response("none", 0, "absent", "none")

----------------------------------------------------------------------------
(* The store connection (mongoose.connect and the driver's reconnects) *)

ConnectionOpened ==
    /\ readyState \in {0, 2}
    /\ readyState' = 1
    /\ UNCHANGED <<variant, users, notes, items, noteSeq, itemSeq, now, regToken, creator,
                   inflight, last>>

ConnectionLost ==
    /\ readyState \in {1, 2}
    /\ readyState' = 0
    /\ UNCHANGED <<variant, users, notes, items, noteSeq, itemSeq, now, regToken, creator,
                   inflight, last>>

----------------------------------------------------------------------------
(* POST /register *)

PasswordTooShortOffByOne(password) == Len(password) < MinPasswordLength - 1

\* password.length < 8
PasswordTooShort(password) == Len(password) < MinPasswordLength

\* the branch the handler takes, from the lookup to the response
RegisterOutcome(username, password) ==
    IF ~IsDefined(username) THEN "error"                       \* undefined.toLowerCase()
    ELSE IF ~Connected THEN "error"                            \* findOne rejects
    ELSE IF FindUserByName(toLowerCase(Val(username))) # {} THEN "duplicate"
    ELSE IF ~IsDefined(password) THEN "error"                  \* undefined.length
    ELSE IF PasswordTooShort(Val(password)) THEN "weak"
    ELSE IF ~UserValid(toLowerCase(Val(username)), Val(password)) THEN "error"  \* save() rejects
    ELSE "created"

Register(username, password) ==
    LET out == RegisterOutcome(username, password) IN
    /\ IF out = "created"
       THEN /\ Cardinality(users) < MaxUsers
            /\ LET salt == genSaltSync
                     tok == randomToken
                     newUser == [id |-> Cardinality(users) + 1,
                                 username |-> toLowerCase(Val(username)),
                                 password |-> hashSync(Val(password), salt),
                                 accessToken |-> tok]
                 IN /\ users' = users \cup {newUser}
                    /\ regToken' = (newUser.id :> tok) @@ regToken
                    /\ last' = [Response("register", 201, "true", out) EXCEPT
                                  !.username = username, !.password = password,
                                  !.accessToken = newUser.accessToken,
                                  !.userId = newUser.id, !.ran = {"register"}]
       ELSE /\ last' = [Response("register", 400, "false", out) EXCEPT
                          !.username = username, !.password = password,
                          !.ran = {"register"}]
            /\ UNCHANGED <<users, regToken>>
    /\ UNCHANGED <<variant, readyState, notes, items, noteSeq, itemSeq, now, creator, inflight>>

----------------------------------------------------------------------------
(* POST /register under concurrency.  The handler awaits twice, the lookup *)
(* and the save, and other requests run between the two.                   *)

UniqueIndexMissing(name) == TRUE

\* unique: true on username: the index mongoose builds for it refuses an
\* insert whose username a stored document already has (E11000)
UniqueIndexAllows(name) == \A u \in users : u.username # name

Slots == 1..MaxInflight

\* from the start of the handler to the call of save()
RegisterLookup(username, password) ==
    LET out == RegisterOutcome(username, password) IN
    /\ IF out = "created"
       THEN /\ \E slot \in Slots \ DOMAIN inflight :
                 /\ \A o \in Slots \ DOMAIN inflight : slot <= o
                 /\ inflight' = (slot :> [username |-> username, password |-> password])
                                   @@ inflight
            /\ last' = last
       ELSE /\ last' = [Response("register", 400, "false", out) EXCEPT
                          !.username = username, !.password = password,
                          !.ran = {"register"}]
            /\ inflight' = inflight
    /\ UNCHANGED <<variant, readyState, users, notes, items, noteSeq, itemSeq, now,
                   regToken, creator>>

\* save() settles and the handler answers
RegisterSave(slot) ==
    /\ slot \in DOMAIN inflight
    /\ LET req  == inflight[slot]
           name == toLowerCase(Val(req.username))
       IN IF Connected /\ UniqueIndexAllows(name)
          THEN /\ Cardinality(users) < MaxUsers
               /\ LET tok == randomToken
                      newUser == [id |-> Cardinality(users) + 1,
                                  username |-> name,
                                  password |-> hashSync(Val(req.password), genSaltSync),
                                  accessToken |-> tok]
                  IN /\ users' = users \cup {newUser}
                     /\ regToken' = (newUser.id :> tok) @@ regToken
                     /\ last' = [Response("register", 201, "true", "created") EXCEPT
                                   !.username = req.username, !.password = req.password,
                                   !.accessToken = newUser.accessToken,
                                   !.userId = newUser.id, !.ran = {"register"}]
          ELSE /\ last' = [Response("register", 400, "false",
                                    IF Connected THEN "duplicatekey" ELSE "error") EXCEPT
                             !.username = req.username, !.password = req.password,
                             !.ran = {"register"}]
               /\ UNCHANGED <<users, regToken>>
    /\ inflight' = [i \in DOMAIN inflight \ {slot} |-> inflight[i]]
    /\ UNCHANGED <<variant, readyState, notes, items, noteSeq, itemSeq, now, creator>>

----------------------------------------------------------------------------
(* POST /login *)

LoginOutcome(username, password) ==
    IF ~IsDefined(username) THEN "error"
    ELSE IF ~Connected THEN "error"
    ELSE LET found == FindUserByName(toLowerCase(Val(username))) IN
         IF found = {} THEN "incorrect"
         ELSE IF ~IsDefined(password) THEN "error"             \* compareSync throws
         ELSE IF \E u \in found : compareSync(Val(password), u.password) THEN "ok"
         ELSE "incorrect"

Login(username, password) ==
    LET out == LoginOutcome(username, password) IN
    /\ IF out = "ok"
       THEN \E u \in FindUserByName(toLowerCase(Val(username))) :
              last' = [Response("login", 200, "true", out) EXCEPT
                         !.username = username, !.password = password,
                         !.accessToken = u.accessToken, !.userId = u.id,
                         !.ran = {"login"}]
       ELSE last' = [Response("login", 400, "false", out) EXCEPT
                       !.username = username, !.password = password,
                       !.ran = {"login"}]
    /\ UNCHANGED <<variant, readyState, users, notes, items, noteSeq, itemSeq, now,
                   regToken, creator, inflight>>


----------------------------------------------------------------------------
(* authenticateUser: the identity check in front of the protected routes *)

\* "next" when the handler behind it runs, else the response it sends itself
authenticateUser(token) ==
    IF ~Connected THEN "error"                                 \* findOne rejects: 400
    ELSE IF FindUserByToken(token) = {} THEN "unauthorized"    \* 401
    ELSE "next"

\* req.user as the handler behind authenticateUser sees it: part_000 attaches
\* the user document, server.js attaches nothing.
reqUser(token) ==
    IF variant = "part_000"
    THEN (CHOOSE u \in FindUserByToken(token) : TRUE).id
    ELSE NoUser

\* the response authenticateUser sends when it does not call next()
AuthResponse(op, token, target, body) ==
    [Response(op, IF authenticateUser(token) = "unauthorized" THEN 401 ELSE 400,
              "false", authenticateUser(token))
       EXCEPT !.token = token, !.target = target, !.body = body,
              !.ran = {"authenticateUser"}]

\* the readiness gate: app.use((req, res, next) => ...)
GateResponse(op, token, target, body) ==
    [Response(op, 503, "absent", "unavailable")
       EXCEPT !.token = token, !.target = target, !.body = body, !.ran = {"gate"}]

----------------------------------------------------------------------------
(* Queries *)

\* all orderings of a finite set
Orderings(S) ==
    {f \in [1..Cardinality(S) -> S] : \A i, j \in 1..Cardinality(S) : i # j => f[i] # f[j]}

Null == 0

\* the value .sort() compares: the document's field, null when it has none
SortKey(d, field) == IF field \in DOMAIN d THEN d[field] ELSE Null

\* .sort({ field: "desc" }): every order the store may return; documents with
\* equal keys come in any order
sortDesc(docs, field) ==
    {f \in Orderings(docs) :
        \A i, j \in 1..Cardinality(docs) : i < j => SortKey(f[i], field) >= SortKey(f[j], field)}

Ids(seq) == [i \in 1..Len(seq) |-> seq[i].id]

----------------------------------------------------------------------------
(* GET /home (server.js; commented out in part_000).  The route sits in    *)
(* front of the readiness gate and of authenticateUser.                    *)

\* what the weather service does with the upstream call
Upstreams == {"ok", "refused", "unreachable"}

\* requireDefined: whether the name require exists in the module the build
\* runs (it does not in a native ES module, where the handler throws at once
\* and the router answers 500).  The callback parses the body before it looks
\* at anything else: an unreachable service hands it no body, JSON.parse
\* throws outside every handler and the process exits; a supervisor starts it
\* again, connecting.  A status other than 200 sends no response at all.
GetHome(requireDefined, upstream) ==
    /\ variant = "server"
    /\ IF ~requireDefined
       THEN /\ last' = [Response("GET /home", 500, "absent", "error") EXCEPT
                          !.ran = {"GET /home"}]
            /\ readyState' = readyState
       ELSE IF upstream = "ok"
       THEN /\ last' = [Response("GET /home", 200, "absent", "ok") EXCEPT
                          !.ran = {"GET /home"}]
            /\ readyState' = readyState
       ELSE IF upstream = "refused"
       THEN /\ last' = [Response("GET /home", 0, "absent", "noresponse") EXCEPT
                          !.ran = {"GET /home"}]
            /\ readyState' = readyState
       ELSE /\ last' = [Response("GET /home", 0, "absent", "crash") EXCEPT
                          !.ran = {"GET /home"}]
            /\ readyState' = 2
    /\ UNCHANGED <<variant, users, notes, items, noteSeq, itemSeq, now, regToken, creator,
                   inflight>>

----------------------------------------------------------------------------
(* PersonalNotes *)

TagsEnum ==
    IF variant = "part_000"
    THEN {"accommodation", "activities", "city", "food n drinks", "memories",
          "sightseeing", "travel"}
    ELSE {"food", "travel", "city"}

\* PersonalNotesSchema validation, run by save() after the trim setters
NoteValid(body) ==
    /\ IsDefined(body.heading)
    /\ Trim(Val(body.heading)) # <<>>
    /\ Len(Trim(Val(body.heading))) <= HeadingMaxLength
    /\ IsDefined(body.message)
    /\ Trim(Val(body.message)) # <<>>
    /\ Len(Trim(Val(body.message))) >= MessageMinLength
    /\ IsDefined(body.tags)
    /\ Val(body.tags) \in TagsEnum

\* new PersonalNotes({ heading, message, tags, user })
NewNote(body, user) ==
    [id |-> noteSeq + 1,
     heading |-> Trim(Val(body.heading)),
     message |-> Trim(Val(body.message)),
     tags |-> Val(body.tags),
     createAt |-> now + 1,
     user |-> user]

\* the $set an update body turns into: only the supplied schema paths, strings
\* trimmed by the schema setters, no validators run
ApplyNoteUpdate(n, body) ==
    [n EXCEPT
       !.heading = IF IsDefined(body.heading) THEN Trim(Val(body.heading)) ELSE @,
       !.message = IF IsDefined(body.message) THEN Trim(Val(body.message)) ELSE @,
       !.tags    = IF IsDefined(body.tags) THEN Val(body.tags) ELSE @]

NotesUnchanged == UNCHANGED <<notes, noteSeq, now, creator>>
OthersUnchanged == UNCHANGED <<variant, readyState, users, items, itemSeq, regToken, inflight>>

\* GET /notes (part_000), GET /notes/:userId (server.js)
GetNotes(token, userId) ==
    /\ IF authenticateUser(token) # "next"
       THEN last' = AuthResponse("GET /notes", token, userId, NoBody)
       ELSE IF variant = "server" /\ userId = BadId
       THEN last' = [Response("GET /notes", 400, "false", "error") EXCEPT     \* CastError
                       !.token = token, !.target = userId,
                       !.identity = reqUser(token),
                       !.ran = {"authenticateUser", "GET /notes"}]
       ELSE LET owner == IF variant = "part_000" THEN reqUser(token) ELSE userId
                found == {n \in notes : n.user = owner}
            IN \E seq \in sortDesc(found, "createdAt") :
                 last' = [Response("GET /notes", 200, "absent", "ok") EXCEPT
                            !.token = token, !.target = userId, !.result = Ids(seq),
                            !.identity = reqUser(token),
                            !.ran = {"authenticateUser", "GET /notes"}]
    /\ NotesUnchanged
    /\ OthersUnchanged

\* POST /notes
PostNotes(token, body) ==
    /\ IF authenticateUser(token) # "next"
       THEN /\ last' = AuthResponse("POST /notes", token, 0, body)
            /\ NotesUnchanged
       ELSE IF ~NoteValid(body)
       THEN /\ last' = [Response("POST /notes", 400, "false", "invalid") EXCEPT
                          !.token = token, !.body = body,
                          !.identity = reqUser(token),
                          !.ran = {"authenticateUser", "POST /notes"}]
            /\ NotesUnchanged
       ELSE /\ noteSeq + itemSeq < MaxDocs
            /\ LET doc == NewNote(body, reqUser(token)) IN
               /\ notes' = notes \cup {doc}
               /\ noteSeq' = doc.id
               /\ now' = doc.createAt
               /\ creator' = [creator EXCEPT !.notes =
                                (doc.id :> (CHOOSE u \in FindUserByToken(token) : TRUE).id) @@ @]
               /\ last' = [Response("POST /notes", 200, "true", "ok") EXCEPT
                             !.token = token, !.body = body, !.doc = doc.id,
                             !.identity = reqUser(token),
                             !.ran = {"authenticateUser", "POST /notes"}]
    /\ OthersUnchanged

\* the filter of the delete: part_000 findOneAndDelete({ user, _id }),
\* server.js findByIdAndDelete({ _id })
NoteDeleteFilter(n, token, notesId) ==
    IF variant = "part_000"
    THEN n.user = reqUser(token) /\ n.id = notesId
    ELSE n.id = notesId

\* DELETE /notes/:notesId
DeleteNotes(token, notesId) ==
    /\ IF authenticateUser(token) # "next"
       THEN /\ last' = AuthResponse("DELETE /notes", token, notesId, NoBody)
            /\ notes' = notes
       ELSE IF notesId = BadId
       THEN /\ last' = [Response("DELETE /notes", 400, "false", "error") EXCEPT    \* CastError
                          !.token = token, !.target = notesId,
                          !.identity = reqUser(token),
                          !.ran = {"authenticateUser", "DELETE /notes"}]
            /\ notes' = notes
       ELSE LET found == {n \in notes : NoteDeleteFilter(n, token, notesId)} IN
            IF found = {}
            THEN /\ last' = [Response("DELETE /notes", 400, "false", "notfound") EXCEPT
                               !.token = token, !.target = notesId,
                               !.identity = reqUser(token),
                               !.ran = {"authenticateUser", "DELETE /notes"}]
                 /\ notes' = notes
            ELSE /\ notes' = notes \ found
                 /\ last' = [Response("DELETE /notes", 200, "true", "ok") EXCEPT
                               !.token = token, !.target = notesId, !.doc = notesId,
                               !.identity = reqUser(token),
                               !.ran = {"authenticateUser", "DELETE /notes"}]
    /\ UNCHANGED <<noteSeq, now, creator>>
    /\ OthersUnchanged

\* PATCH /notes/:notesId/update (part_000).  authenticateUser is mounted on
\* "/notes/:notesId", a path this request does not match, so the handler runs
\* for every request.  The success branch reads the undeclared name
\* updateIsCompleted after the update was written: the catch answers 400.
PatchNotesUpdate(token, notesId, body) ==
    /\ variant = "part_000"
    /\ IF ~Connected \/ notesId = BadId
       THEN /\ last' = [Response("PATCH /notes/update", 400, "false", "error") EXCEPT
                          !.token = token, !.target = notesId, !.body = body,
                          !.ran = {"PATCH /notes/update"}]
            /\ notes' = notes
       ELSE LET found == {n \in notes : n.id = notesId} IN
            IF found = {}
            THEN /\ last' = [Response("PATCH /notes/update", 200, "false", "notfound") EXCEPT
                               !.token = token, !.target = notesId, !.body = body,
                               !.ran = {"PATCH /notes/update"}]
                 /\ notes' = notes
            ELSE /\ notes' = (notes \ found) \cup {ApplyNoteUpdate(n, body) : n \in found}
                 /\ last' = [Response("PATCH /notes/update", 400, "false", "error") EXCEPT
                               !.token = token, !.target = notesId, !.body = body,
                               !.ran = {"PATCH /notes/update"}]
    /\ UNCHANGED <<noteSeq, now, creator>>
    /\ OthersUnchanged

\* PATCH /notes/:notesId/completed (server.js): no authenticateUser in front;
\* PersonalNotes(...) called as a function builds a document and saves nothing.
PatchNotesCompleted(token, notesId, body) ==
    /\ variant = "server"
    /\ last' = [Response("PATCH /notes/completed", 200, "true", "ok") EXCEPT
                  !.token = token, !.target = notesId, !.body = body, !.doc = notesId,
                  !.ran = {"PATCH /notes/completed"}]
    /\ NotesUnchanged
    /\ OthersUnchanged

----------------------------------------------------------------------------
(* PackingList.  Its routes are registered behind the readiness gate. *)

ItemHeadingMinLength ==
    IF variant = "part_000" THEN ItemHeadingMinLength000 ELSE ItemHeadingMinLengthServer

\* PackingListSchema validation, run by save() after the trim setters
ItemValid(body) ==
    /\ IsDefined(body.heading)
    /\ Trim(Val(body.heading)) # <<>>
    /\ Len(Trim(Val(body.heading))) >= ItemHeadingMinLength
    /\ Len(Trim(Val(body.heading))) <= HeadingMaxLength
    /\ IsDefined(body.message)
    /\ Trim(Val(body.message)) # <<>>

\* new PackingList({ heading, message, user }) in part_000, with isCompleted
\* from the body in server.js (default: false).  A stored field is Some(value),
\* or Undefined when the document holds null.
NewItem(body, user) ==
    [id |-> itemSeq + 1,
     heading |-> Some(Trim(Val(body.heading))),
     message |-> Some(Trim(Val(body.message))),
     createAt |-> now + 1,
     isCompleted |-> IF variant = "server" /\ IsDefined(body.isCompleted)
                     THEN body.isCompleted ELSE Some(FALSE),
     user |-> user]

\* One field of an update { field: value } whose value may be undefined: a
\* defined value is set; an undefined one is dropped from the update or written
\* as null, depending on the mongoose release (nullify).
SetField(old, new, nullify) ==
    IF IsDefined(new) THEN new ELSE IF nullify THEN Undefined ELSE old

TrimField(f) == IF IsDefined(f) THEN Some(Trim(Val(f))) ELSE f

ItemsUnchanged == UNCHANGED <<items, itemSeq, now, creator>>
NotesSideUnchanged == UNCHANGED <<variant, readyState, users, notes, noteSeq, regToken, inflight>>

\* GET /packinglist (part_000), GET /packinglist/:userId (server.js).
\* server.js filters on userId, which is no path of the schema: the filter
\* matches nothing, or is dropped and matches everything (strictQuery).
GetPackinglist(token, userId) ==
    /\ IF ~Connected
       THEN last' = GateResponse("GET /packinglist", token, userId, NoBody)
       ELSE IF authenticateUser(token) # "next"
       THEN last' = AuthResponse("GET /packinglist", token, userId, NoBody)
       ELSE \E strictQuery \in BOOLEAN :
            LET found == IF variant = "part_000"
                         THEN {d \in items : d.user = reqUser(token)}
                         ELSE IF strictQuery THEN items ELSE {}
            IN \E seq \in sortDesc(found, "createdAt") :
                 last' = [Response("GET /packinglist", 200, "absent", "ok") EXCEPT
                            !.token = token, !.target = userId, !.result = Ids(seq),
                            !.identity = reqUser(token),
                            !.ran = {"gate", "authenticateUser", "GET /packinglist"}]
    /\ ItemsUnchanged
    /\ NotesSideUnchanged

\* POST /packinglist
PostPackinglist(token, body) ==
    /\ IF ~Connected
       THEN /\ last' = GateResponse("POST /packinglist", token, 0, body)
            /\ ItemsUnchanged
       ELSE IF authenticateUser(token) # "next"
       THEN /\ last' = AuthResponse("POST /packinglist", token, 0, body)
            /\ ItemsUnchanged
       ELSE IF ~ItemValid(body)
       THEN /\ last' = [Response("POST /packinglist", 400, "false", "invalid") EXCEPT
                          !.token = token, !.body = body,
                          !.identity = reqUser(token),
                          !.ran = {"gate", "authenticateUser", "POST /packinglist"}]
            /\ ItemsUnchanged
       ELSE /\ noteSeq + itemSeq < MaxDocs
            /\ LET doc == NewItem(body, reqUser(token)) IN
               /\ items' = items \cup {doc}
               /\ itemSeq' = doc.id
               /\ now' = doc.createAt
               /\ creator' = [creator EXCEPT !.items =
                                (doc.id :> (CHOOSE u \in FindUserByToken(token) : TRUE).id) @@ @]
               /\ last' = [Response("POST /packinglist", 200, "absent", "ok") EXCEPT
                             !.token = token, !.body = body, !.doc = doc.id,
                             !.identity = reqUser(token),
                             !.ran = {"gate", "authenticateUser", "POST /packinglist"}]
    /\ NotesSideUnchanged

\* DELETE /packinglist/:notesId (part_000): findOneAndDelete({ user, _id }).
\* DELETE /packinglist/:userId (server.js): the handler reads req.params.listId,
\* which the route does not define, and findByIdAndDelete({ _id: undefined })
\* is rejected with a CastError.
DeletePackinglist(token, listId) ==
    /\ IF ~Connected
       THEN /\ last' = GateResponse("DELETE /packinglist", token, listId, NoBody)
            /\ items' = items
       ELSE IF authenticateUser(token) # "next"
       THEN /\ last' = AuthResponse("DELETE /packinglist", token, listId, NoBody)
            /\ items' = items
       ELSE IF variant = "server" \/ listId = BadId
       THEN /\ last' = [Response("DELETE /packinglist", 400, "false", "error") EXCEPT
                          !.token = token, !.target = listId,
                          !.identity = reqUser(token),
                          !.ran = {"gate", "authenticateUser", "DELETE /packinglist"}]
            /\ items' = items
       ELSE LET found == {d \in items : d.user = reqUser(token) /\ d.id = listId} IN
            IF found = {}
            THEN /\ last' = [Response("DELETE /packinglist", 400, "false", "notfound") EXCEPT
                               !.token = token, !.target = listId,
                               !.identity = reqUser(token),
                               !.ran = {"gate", "authenticateUser", "DELETE /packinglist"}]
                 /\ items' = items
            ELSE /\ items' = items \ found
                 /\ last' = [Response("DELETE /packinglist", 200, "true", "ok") EXCEPT
                               !.token = token, !.target = listId, !.doc = listId,
                               !.identity = reqUser(token),
                               !.ran = {"gate", "authenticateUser", "DELETE /packinglist"}]
    /\ UNCHANGED <<itemSeq, now, creator>>
    /\ NotesSideUnchanged

\* PATCH /packinglist/:listId/update.  authenticateUser is mounted on
\* "/packinglist/:listId", a path this request does not match.
\* part_000: the handler reads req.user.isCompleted before its try block;
\* req.user is undefined, the async handler rejects and no response is sent.
\* server.js: findByIdAndUpdate({ _id }, { heading, message }, { new: true }).
PatchPackinglistUpdate(token, listId, body) ==
    /\ IF ~Connected
       THEN /\ last' = GateResponse("PATCH /packinglist/update", token, listId, body)
            /\ items' = items
       ELSE IF variant = "part_000"
       THEN /\ last' = [Response("PATCH /packinglist/update", 0, "absent", "noresponse") EXCEPT
                          !.token = token, !.target = listId, !.body = body,
                          !.ran = {"gate", "PATCH /packinglist/update"}]
            /\ items' = items
       ELSE IF listId = BadId
       THEN /\ last' = [Response("PATCH /packinglist/update", 400, "false", "error") EXCEPT
                          !.token = token, !.target = listId, !.body = body,
                          !.ran = {"gate", "PATCH /packinglist/update"}]
            /\ items' = items
       ELSE LET found == {d \in items : d.id = listId} IN
            IF found = {}
            THEN /\ last' = [Response("PATCH /packinglist/update", 400, "false", "notfound") EXCEPT
                               !.token = token, !.target = listId, !.body = body,
                               !.ran = {"gate", "PATCH /packinglist/update"}]
                 /\ items' = items
            ELSE \E nullify \in BOOLEAN :
                 /\ items' = (items \ found) \cup
                      {[d EXCEPT !.heading = SetField(@, TrimField(body.heading), nullify),
                                 !.message = SetField(@, TrimField(body.message), nullify)]
                         : d \in found}
                 /\ last' = [Response("PATCH /packinglist/update", 200, "true", "ok") EXCEPT
                               !.token = token, !.target = listId, !.body = body,
                               !.doc = listId,
                               !.ran = {"gate", "PATCH /packinglist/update"}]
    /\ UNCHANGED <<itemSeq, now, creator>>
    /\ NotesSideUnchanged

\* PATCH /packinglist/:listId/completed.
\* part_000: authenticateUser, then findOneAndUpdate({ _id }, { isCompleted },
\* { new: true }); the answer is 200 whether or not a document matched.
\* server.js registers the path "packinglist/:listId/completed" without its
\* leading slash, which no request matches: the router answers 404.
PatchPackinglistCompleted(token, listId, body) ==
    /\ IF ~Connected
       THEN /\ last' = GateResponse("PATCH /packinglist/completed", token, listId, body)
            /\ items' = items
       ELSE IF variant = "server"
       THEN /\ last' = [Response("PATCH /packinglist/completed", 404, "absent", "noroute") EXCEPT
                          !.token = token, !.target = listId, !.body = body,
                          !.ran = {"gate"}]
            /\ items' = items
       ELSE IF authenticateUser(token) # "next"
       THEN /\ last' = AuthResponse("PATCH /packinglist/completed", token, listId, body)
            /\ items' = items
       ELSE IF listId = BadId
       THEN /\ last' = [Response("PATCH /packinglist/completed", 400, "false", "error") EXCEPT
                          !.token = token, !.target = listId, !.body = body,
                          !.identity = reqUser(token),
                          !.ran = {"gate", "authenticateUser", "PATCH /packinglist/completed"}]
            /\ items' = items
       ELSE LET found == {d \in items : d.id = listId} IN
            \E nullify \in BOOLEAN :
            /\ items' = (items \ found) \cup
                 {[d EXCEPT !.isCompleted = SetField(@, body.isCompleted, nullify)] : d \in found}
            /\ last' = [Response("PATCH /packinglist/completed", 200, "true", "ok") EXCEPT
                          !.token = token, !.target = listId, !.body = body,
                          !.doc = IF found = {} THEN 0 ELSE listId,
                          !.identity = reqUser(token),
                          !.ran = {"gate", "authenticateUser", "PATCH /packinglist/completed"}]
    /\ UNCHANGED <<itemSeq, now, creator>>
    /\ NotesSideUnchanged

----------------------------------------------------------------------------
(* Request inputs *)

BodyUsernames == {Undefined} \cup {Some(u) : u \in Usernames}
BodyPasswords == {Undefined} \cup {Some(p) : p \in Passwords}

\* a token is garbage until a registration hands it out
ReqTokens == {NoHeader} \cup Tokens
DocIds    == 1..MaxDocs
\* the :userId parameter exists in server.js only
UserIdParams == IF variant = "server" THEN UserIds ELSE {0}

Trip   == <<"T", "r", "i", "p">>
Plan   == <<"P", "l", "a", "n">>
Hello  == <<"h", "e", "l", "l", "o">>

ValidNote   == Body(Some(Trip), Some(Hello), Some("travel"), Undefined)
HeadingOnly == Body(Some(Plan), Undefined, Undefined, Undefined)

PostNoteBodies  == {ValidNote}
PatchNoteBodies == {HeadingOnly}

Socks == <<"S", "o", "c", "k", "s">>
Shirt == <<"S", "h", "i", "r", "t">>
Wool  == <<"w", "o", "o", "l">>

ValidItem   == Body(Some(Socks), Some(Wool), Undefined, Undefined)
ItemHeading == Body(Some(Shirt), Undefined, Undefined, Undefined)
Completed   == Body(Undefined, Undefined, Undefined, Some(TRUE))

PostItemBodies  == {ValidItem}
PatchItemBodies == {ItemHeading}

ItemsNext ==
    \/ \E t \in ReqTokens, u \in UserIdParams : GetPackinglist(t, u)
    \/ \E t \in ReqTokens, b \in PostItemBodies : PostPackinglist(t, b)
    \/ \E t \in ReqTokens, i \in DocIds : DeletePackinglist(t, i)
    \/ \E t \in ReqTokens, i \in DocIds, b \in PatchItemBodies : PatchPackinglistUpdate(t, i, b)
    \/ \E t \in ReqTokens, i \in DocIds : PatchPackinglistCompleted(t, i, Completed)

\* the registrations and logins of the resource specification
SomeUsernames == {Some(<<"a">>), Some(<<"b">>)}
SomePasswords == {Some(Str("x", 8)), Some(Str("y", 8))}

NotesNext ==
    \/ \E t \in ReqTokens, u \in UserIdParams : GetNotes(t, u)
    \/ \E t \in ReqTokens, b \in PostNoteBodies : PostNotes(t, b)
    \/ \E t \in ReqTokens, i \in DocIds : DeleteNotes(t, i)
    \/ \E t \in ReqTokens, i \in DocIds, b \in PatchNoteBodies : PatchNotesUpdate(t, i, b)
    \/ \E t \in ReqTokens, i \in DocIds : PatchNotesCompleted(t, i, NoBody)

ConnectionNext ==
    \/ ConnectionOpened
    \/ ConnectionLost

\* registration and login with every kind of input
AuthNext ==
    \/ ConnectionNext
    \/ \E u \in BodyUsernames, p \in BodyPasswords : Register(u, p)
    \/ \E u \in BodyUsernames, p \in BodyPasswords : Login(u, p)
    \/ \E t \in ReqTokens : PostNotes(t, ValidNote)
    \/ \E t \in ReqTokens : DeleteNotes(t, 1)

SpecAuth == Init /\ [][AuthNext]_vars

\* registrations that overlap
RaceUsernames == {Some(<<"a">>), Some(<<"A">>), Some(<<"b">>)}
RacePasswords == {Some(Str("x", 7)), Some(Str("x", 8))}

RaceNext ==
    \/ ConnectionNext
    \/ \E u \in RaceUsernames, p \in RacePasswords : RegisterLookup(u, p)
    \/ \E slot \in Slots : RegisterSave(slot)

SpecRace == Init /\ [][RaceNext]_vars

Next ==
    \/ ConnectionNext
    \/ \E u \in SomeUsernames : Register(u, Some(Str("x", 8)))
    \/ \E u \in SomeUsernames, p \in SomePasswords : Login(u, p)
    \/ NotesNext
    \/ ItemsNext

Spec == Init /\ [][Next]_vars

----------------------------------------------------------------------------
(* Requests with missing fields, fields that break the schema, ids that    *)
(* are no ObjectId, and a failing upstream call.                           *)

Hi    == <<"h", "i">>
\* 50 characters between two blanks: 52 characters sent, 50 after trimming
Padded == <<" ">> \o Str("h", HeadingMaxLength) \o <<" ">>

EmptyHeading  == Body(Some(<<>>), Some(Hello), Some("travel"), Undefined)
LongHeading   == Body(Some(Str("h", HeadingMaxLength + 1)), Some(Hello), Some("travel"), Undefined)
PaddedHeading == Body(Some(Padded), Some(Hello), Some("travel"), Undefined)
ShortMessage  == Body(Some(Trip), Some(Hi), Some("travel"), Undefined)
BadTag        == Body(Some(Trip), Some(Hello), Some("bogus"), Undefined)

LongHeadingOnly  == Body(Some(Str("h", HeadingMaxLength + 1)), Undefined, Undefined, Undefined)
ShortMessageOnly == Body(Undefined, Some(Hi), Undefined, Undefined)
BadTagOnly       == Body(Undefined, Undefined, Some("bogus"), Undefined)

AnyNoteBodies  == {ValidNote, NoBody, EmptyHeading, LongHeading, PaddedHeading,
                   ShortMessage, BadTag}
AnyPatchBodies == {LongHeadingOnly, ShortMessageOnly, BadTagOnly}
AnyIds         == {1, BadId}

InputsNext ==
    \/ ConnectionNext
    \/ \E u \in {Undefined, Some(<<"a">>)}, p \in {Undefined, Some(Str("x", 8))} : Register(u, p)
    \/ \E t \in ReqTokens, b \in AnyNoteBodies : PostNotes(t, b)
    \/ \E t \in ReqTokens, i \in AnyIds : DeleteNotes(t, i)
    \/ \E i \in AnyIds, b \in AnyPatchBodies : PatchNotesUpdate(NoHeader, i, b)
    \/ \E i \in AnyIds : PatchPackinglistUpdate(NoHeader, i, ItemHeading)
    \/ \E r \in BOOLEAN, up \in Upstreams : GetHome(r, up)

SpecInputs == Init /\ [][InputsNext]_vars

----------------------------------------------------------------------------
(* Vocabulary of the properties.  These definitions read the state only;   *)
(* they use none of the operators that model the handlers.                 *)

\* the step is a request that was answered
Requested == last' # last

\* the users a presented Authorization value belongs to (none for no header)
Caller(token) == {u.id : u \in {x \in users : token # NoHeader /\ x.accessToken = token}}

Anonymous(token) == Caller(token) = {}

DocIdsOf(coll) == {d.id : d \in coll}

NoteOps == {"POST /notes", "DELETE /notes", "PATCH /notes/update", "PATCH /notes/completed"}
ItemOps == {"POST /packinglist", "DELETE /packinglist", "PATCH /packinglist/update",
            "PATCH /packinglist/completed"}
MutatingOps == NoteOps \cup ItemOps
UpdateOps == {"PATCH /notes/update", "PATCH /packinglist/update"}
DeleteOps == {"DELETE /notes", "DELETE /packinglist"}
ListOps   == {"GET /notes", "GET /packinglist"}

StoreUnchanged == notes' = notes /\ items' = items

\* the owner of a document: the user who created it
OwnerOf(coll, id) == creator[coll][id]

\* C1 (store part): no request without a valid token ever creates, modifies
\* or removes a note or a packing-list item.
C1_StoreUntouched ==
    [][(last'.op \in MutatingOps /\ Anonymous(last'.token)) => StoreUnchanged]_vars

\* C1: a request to a mutating notes or packing-list endpoint that carries no
\* Authorization header, or a token no stored user holds, is answered
\* Unauthorized (401, with the store connected) and leaves the store unchanged.
C1_UnauthenticatedRejected ==
    [][(last'.op \in MutatingOps /\ Anonymous(last'.token) /\ (Requested \/ ~StoreUnchanged))
         => /\ StoreUnchanged
            /\ Connected => last'.status = 401]_vars

\* C2: a delete removes a document only when its owner is the authenticated
\* caller; a delete by another user's valid token is answered NotFound and the
\* document is still stored afterwards.
C2_DeleteOnlyOwned ==
    [][/\ \A id \in DocIdsOf(notes) \ DocIdsOf(notes') :
             last'.op = "DELETE /notes" /\ OwnerOf("notes", id) \in Caller(last'.token)
       /\ \A id \in DocIdsOf(items) \ DocIdsOf(items') :
             last'.op = "DELETE /packinglist" /\ OwnerOf("items", id) \in Caller(last'.token)
       /\ (/\ Requested /\ Connected
           /\ last'.op = "DELETE /notes"
           /\ last'.target \in DocIdsOf(notes)
           /\ ~Anonymous(last'.token)
           /\ OwnerOf("notes", last'.target) \notin Caller(last'.token))
          => last'.kind = "notfound" /\ last'.target \in DocIdsOf(notes')
       /\ (/\ Requested /\ Connected
           /\ last'.op = "DELETE /packinglist"
           /\ last'.target \in DocIdsOf(items)
           /\ ~Anonymous(last'.token)
           /\ OwnerOf("items", last'.target) \notin Caller(last'.token))
          => last'.kind = "notfound" /\ last'.target \in DocIdsOf(items')]_vars

\* the documents of coll whose fields differ after the step
Modified(coll, collAfter) ==
    {d.id : d \in {x \in coll : \E y \in collAfter : y.id = x.id /\ y # x}}

\* C3: an update changes a document only when its owner is the authenticated
\* caller; an update addressed to another user's document is answered NotFound
\* and leaves the document as it was.
C3_UpdateOnlyOwned ==
    [][/\ last'.op \in UpdateOps =>
            /\ \A id \in Modified(notes, notes') : OwnerOf("notes", id) \in Caller(last'.token)
            /\ \A id \in Modified(items, items') : OwnerOf("items", id) \in Caller(last'.token)
       /\ (/\ Requested /\ Connected
           /\ last'.op = "PATCH /notes/update"
           /\ last'.target \in DocIdsOf(notes)
           /\ OwnerOf("notes", last'.target) \notin Caller(last'.token))
          => last'.kind = "notfound"
       /\ (/\ Requested /\ Connected
           /\ last'.op = "PATCH /packinglist/update"
           /\ last'.target \in DocIdsOf(items)
           /\ OwnerOf("items", last'.target) \notin Caller(last'.token))
          => last'.kind = "notfound"]_vars

\* C4: every note and packing-list item a create request stores has, as its
\* owner reference, the id of the user whose token authenticated the request.
C4_OwnerIsCaller ==
    [][/\ \A d \in notes' : d.id \notin DocIdsOf(notes) => d.user \in Caller(last'.token)
       /\ \A d \in items' : d.id \notin DocIdsOf(items) => d.user \in Caller(last'.token)]_vars

Range(seq) == {seq[i] : i \in 1..Len(seq)}

\* C5: a list request returns exactly the documents the authenticated caller
\* owns: all of them, none of another user, the empty sequence when there are
\* none.
C5_ListExactlyOwned ==
    /\ (last.op = "GET /notes" /\ last.status = 200) =>
          /\ Range(last.result) =
               {d.id : d \in {x \in notes : OwnerOf("notes", x.id) \in Caller(last.token)}}
          /\ \A d \in notes : d.id \in Range(last.result) => d.user \in Caller(last.token)
    /\ (last.op = "GET /packinglist" /\ last.status = 200) =>
          /\ Range(last.result) =
               {d.id : d \in {x \in items : OwnerOf("items", x.id) \in Caller(last.token)}}
          /\ \A d \in items : d.id \in Range(last.result) => d.user \in Caller(last.token)

\* C9: while the store connection is not established, every request is
\* answered 503 by the readiness gate and no route handler runs.
C9_GateRejectsAll ==
    [][(Requested /\ ~Connected) => (last'.status = 503 /\ last'.ran = {"gate"})]_vars

\* createAt of the stored document with this id
CreatedAt(coll, id) == (CHOOSE d \in coll : d.id = id).createAt

Descending(coll, result) ==
    \A i, j \in 1..Len(result) : i < j => CreatedAt(coll, result[i]) > CreatedAt(coll, result[j])

\* C10: a list request returns the caller's documents newest first, and two
\* list requests with no mutation between them return the same sequence.
C10_NewestFirst ==
    [][/\ (last'.op = "GET /notes" /\ last'.status = 200) => Descending(notes', last'.result)
       /\ (last'.op = "GET /packinglist" /\ last'.status = 200) => Descending(items', last'.result)
       /\ (/\ last.op \in ListOps /\ last'.op = last.op
           /\ last.status = 200 /\ last'.status = 200
           /\ last'.token = last.token /\ last'.target = last.target)
          => last'.result = last.result]_vars

\* lower case of the letters the model's usernames are written in
Lowercased(s) ==
    [i \in 1..Len(s) |-> IF s[i] = "A" THEN "a" ELSE IF s[i] = "B" THEN "b" ELSE s[i]]

StoredNames == {u.username : u \in users}

RegisterStep == Requested /\ last'.op = "register"

\* C6: with the store connected, registering a username whose lower case is
\* the username of a stored user fails with the duplicate-username answer,
\* whatever the password, and leaves the stored users unchanged.
C6_DuplicateUsername ==
    [][(/\ RegisterStep /\ Connected
        /\ IsDefined(last'.username)
        /\ Lowercased(Val(last'.username)) \in StoredNames)
       => /\ last'.status = 400
          /\ last'.success = "false"
          /\ last'.kind = "duplicate"
          /\ users' = users]_vars

C6_Witness ==
    /\ last.op = "register"
    /\ last.kind = "duplicate"
    /\ last.username = Some(<<"A">>)
    /\ last.password = Some(Str("x", 7))

ShortPassword(f) == IsDefined(f) /\ Len(Val(f)) < 8
GoodPassword(f)  == IsDefined(f) /\ Len(Val(f)) >= 8

FreshUsername(f) == IsDefined(f) /\ Lowercased(Val(f)) \notin StoredNames

\* the registration persisted exactly one user and answered 201 with that
\* user's accessToken and userId
PersistedOne ==
    /\ last'.status = 201
    /\ last'.success = "true"
    /\ users \subseteq users'
    /\ \E u \in users' \ users :
         /\ users' = users \cup {u}
         /\ u.username = Lowercased(Val(last'.username))
         /\ u.id = last'.userId
         /\ u.accessToken = last'.accessToken
         /\ u.accessToken # NoHeader

RejectedUnchanged ==
    /\ last'.status = 400
    /\ last'.success = "false"
    /\ users' = users

\* C7 as stated: a registration with a password shorter than 8 characters is
\* rejected and persists nothing; one with a fresh username and a password of
\* 8 or more characters persists exactly one user and returns username,
\* accessToken and userId (with the store connected).
C7_Original ==
    [][RegisterStep =>
         /\ ShortPassword(last'.password) => RejectedUnchanged
         /\ (Connected /\ FreshUsername(last'.username) /\ GoodPassword(last'.password))
              => PersistedOne]_vars

\* C7 as amended: the same, for a fresh username that is not the empty string.
C7_PasswordLength ==
    [][RegisterStep =>
         /\ ShortPassword(last'.password) => RejectedUnchanged
         /\ (/\ Connected
             /\ FreshUsername(last'.username)
             /\ Val(last'.username) # <<>>
             /\ GoodPassword(last'.password))
              => PersistedOne]_vars

C7_Witness ==
    /\ last.op = "register"
    /\ last.status = 201
    /\ last.password = Some(LongA)
    /\ Cardinality(users) = 2

\* the stored hash covers the first 72 characters of the password it was made from
MatchesStoredHash(password, u) ==
    u.password.digest = IF Len(password) > 72 THEN SubSeq(password, 1, 72) ELSE password

\* C8: with the store connected, a login succeeds if and only if a user with
\* the lower-cased username is stored and the password matches that user's
\* stored hash; every successful login returns the accessToken that the user's
\* registration returned.
C8_LoginIffMatch ==
    [][(Requested /\ last'.op = "login") =>
         /\ (last'.status = 200 /\ last'.success = "true")
              <=> /\ Connected
                  /\ IsDefined(last'.username)
                  /\ IsDefined(last'.password)
                  /\ \E u \in users :
                       /\ u.username = Lowercased(Val(last'.username))
                       /\ MatchesStoredHash(Val(last'.password), u)
         /\ last'.status # 200 => (last'.status = 400 /\ last'.success = "false")
         /\ last'.status = 200 =>
              /\ last'.userId \in DOMAIN regToken
              /\ last'.accessToken = regToken[last'.userId]
              /\ \E u \in users :
                   /\ u.id = last'.userId
                   /\ u.username = Lowercased(Val(last'.username))
         /\ UNCHANGED <<users, regToken>>]_vars

C8_Witness ==
    /\ last.op = "login"
    /\ last.status = 200
    /\ last.userId = 1
    /\ last.username = Some(<<"A">>)
    /\ Cardinality(users) = 2
    /\ noteSeq > 0

----------------------------------------------------------------------------
(* Set-completed and update *)

\* the stored document of coll with this id
DocOf(coll, id) == CHOOSE d \in coll : d.id = id

\* the caller presented a valid token and the document exists under them
OwnedByCaller(name, coll, id, token) ==
    id \in DocIdsOf(coll) /\ OwnerOf(name, id) \in Caller(token)

\* C11: set-completed changes isCompleted only on an item the authenticated
\* caller owns and answers with the updated item; when the caller owns no item
\* with that id the answer is NotFound, a failure response, and nothing changes.
C11_SetCompletedOwned ==
    [][last'.op = "PATCH /packinglist/completed" =>
         /\ \A id \in Modified(items, items') : OwnerOf("items", id) \in Caller(last'.token)
         /\ (Requested /\ Connected /\ OwnedByCaller("items", items, last'.target, last'.token))
              => /\ last'.status = 200
                 /\ last'.success = "true"
                 /\ last'.doc = last'.target
                 /\ DocOf(items', last'.target).isCompleted = last'.body.isCompleted
         /\ (/\ Requested /\ Connected
             /\ ~Anonymous(last'.token)
             /\ ~OwnedByCaller("items", items, last'.target, last'.token))
              => /\ last'.success = "false"
                 /\ last'.kind = "notfound"
                 /\ items' = items]_vars

\* the fields of a note or item that a request body can set
UpdatableFields(op) ==
    IF op = "PATCH /notes/update" THEN {"heading", "message", "tags"} ELSE {"heading", "message"}

\* the value a stored field holds, whichever way the collection stores it
Plain(coll, v) == IF coll = "items" THEN v ELSE Some(v)

\* after the step the document has every supplied field at its new value and
\* every other field at its old one
MergedOnlySupplied(coll, before, after, id, body, fields) ==
    LET old == DocOf(before, id)
        new == DocOf(after, id)
    IN /\ \A f \in fields :
            Plain(coll, new[f]) = IF IsDefined(body[f]) THEN body[f] ELSE Plain(coll, old[f])
       /\ \A f \in DOMAIN old \ fields : new[f] = old[f]

\* C12: an update of an existing record the caller owns answers success with
\* the post-update record, in which every supplied field has its new value and
\* every field not supplied keeps its old value.
C12_PartialUpdate ==
    [][/\ (/\ Requested /\ Connected
           /\ last'.op = "PATCH /notes/update"
           /\ OwnedByCaller("notes", notes, last'.target, last'.token))
          => /\ last'.status = 200
             /\ last'.success = "true"
             /\ last'.doc = last'.target
             /\ last'.target \in DocIdsOf(notes')
             /\ MergedOnlySupplied("notes", notes, notes', last'.target, last'.body,
                                   UpdatableFields(last'.op))
       /\ (/\ Requested /\ Connected
           /\ last'.op = "PATCH /packinglist/update"
           /\ OwnedByCaller("items", items, last'.target, last'.token))
          => /\ last'.status = 200
             /\ last'.success = "true"
             /\ last'.doc = last'.target
             /\ last'.target \in DocIdsOf(items')
             /\ MergedOnlySupplied("items", items, items', last'.target, last'.body,
                                   UpdatableFields(last'.op))]_vars

----------------------------------------------------------------------------
(* Failure responses *)

Store == <<users, notes, items>>

FailureResponse(r) == r.status = 400 \/ r.success = "false"

SuccessResponse(r) == r.status \in {200, 201} /\ r.success # "false"

\* C17: on every mutating endpoint (register, create, delete, update,
\* set-completed) a failure response, status 400 or success false, means the
\* request changed nothing in the store; the store changes only in a request
\* that is answered with a success response.
C17_FailureChangesNothing ==
    [][/\ (/\ last'.op \in MutatingOps \cup {"register"}
           /\ FailureResponse(last'))
          => Store' = Store
       /\ Store' # Store => SuccessResponse(last')]_vars

----------------------------------------------------------------------------
(* The identity behind the auth gate *)

\* a handler behind authenticateUser ran for the request
PassedGate(r) == "authenticateUser" \in r.ran /\ r.ran # {"authenticateUser"}

\* C16: when the auth gate lets a request through, the identity attached to
\* the request is the one user whose stored accessToken equals the presented
\* Authorization value; the token a registration returned resolves to that
\* user and to no other, and a request without header is never let through.
C16_TokenResolvesToUser ==
    [][/\ PassedGate(last') => Caller(last'.token) = {last'.identity}
       /\ \A id \in DOMAIN regToken : Caller(regToken[id]) = {id}]_vars

----------------------------------------------------------------------------
(* Validation of notes *)

\* the three constraints on a stored note
ConstraintsHold(n) ==
    /\ n.heading # <<>>
    /\ Len(n.heading) <= 50
    /\ Len(n.message) >= 5
    /\ n.tags \in TagsEnum

\* the request body has a heading that is empty or longer than 50 characters,
\* a message shorter than 5 characters, or a tag outside the enumerated set
BreaksConstraint(b) ==
    \/ IsDefined(b.heading) /\ (Val(b.heading) = <<>> \/ Len(Val(b.heading)) > 50)
    \/ IsDefined(b.message) /\ Len(Val(b.message)) < 5
    \/ IsDefined(b.tags) /\ Val(b.tags) \notin TagsEnum

\* C13: creating a note whose heading is empty or longer than 50 characters,
\* whose message is shorter than 5 characters, or whose tag is outside the
\* enumerated set is answered with a validation failure and stores nothing;
\* every stored note satisfies the three constraints.
C13_NotesValidated ==
    [][/\ (/\ Requested /\ Connected
           /\ last'.op = "POST /notes"
           /\ ~Anonymous(last'.token)
           /\ BreaksConstraint(last'.body))
          => /\ FailureResponse(last')
             /\ last'.kind = "invalid"
             /\ notes' = notes
       /\ \A n \in notes' : ConstraintsHold(n)]_vars

----------------------------------------------------------------------------
(* Every request is answered *)

\* the request lacks a field its route reads, or names an id that is none
Malformed(r) ==
    \/ r.op = "register" /\ (~IsDefined(r.username) \/ ~IsDefined(r.password))
    \/ r.op = "POST /notes" /\ r.body = NoBody
    \/ r.target = BadId

\* C15: every request to a registered route, also one that lacks username,
\* password or record fields, names a malformed id, or meets a failing
\* upstream call, receives a response (a failure indication when the request
\* is malformed), and the server process keeps running.
C15_AlwaysAnswered ==
    [][Requested =>
         /\ last'.status # 0
         /\ last'.kind # "crash"
         /\ Malformed(last') => (last'.status >= 400 \/ last'.success = "false")]_vars

----------------------------------------------------------------------------
(* Concurrent registrations *)

\* C14: under every interleaving of registrations no two stored users share a
\* username; of the registrations of one username that overlap between lookup
\* and save at most one is persisted and at most one is answered 201: a 201 is
\* given only for a username no stored user had, with exactly that one user
\* added.
C14_UniqueUsernames ==
    [][/\ \A u, v \in users' : u.username = v.username => u = v
       /\ users \subseteq users'
       /\ (Requested /\ last'.op = "register" /\ last'.status = 201)
            => /\ Lowercased(Val(last'.username)) \notin StoredNames
               /\ \E u \in users' \ users :
                    /\ users' = users \cup {u}
                    /\ u.username = Lowercased(Val(last'.username))
                    /\ u.id = last'.userId
       /\ users' # users => (last'.op = "register" /\ last'.status = 201)]_vars

\* two registrations of one username overlapped: the second save was refused
C14_Witness ==
    /\ last.op = "register"
    /\ last.kind = "duplicatekey"
    /\ last.username = Some(<<"A">>)
    /\ Lowercased(Val(last.username)) \in StoredNames

====
